---------------------------- MODULE Spec2Model ----------------------------
(***************************************************************************)
(* A model of backup_to_s3.py: the synchroniser that uploads image files   *)
(* of three source trees to an object store, records them in a PostgreSQL  *)
(* ledger (s3_backups) and moves the rows of locally deleted files to an   *)
(* audit table (s3_backups_deleted).                                       *)
(*                                                                         *)
(* Strings are sequences of one-character strings, so that relpath,        *)
(* startswith, LIKE and the base name are computed as the code does.       *)
(***************************************************************************)
EXTENDS Naturals, Sequences, FiniteSets, TLC

(***************************************************************************)
(* Bounds of the model.                                                    *)
(***************************************************************************)
\* runs of main() in one behaviour
MaxRuns == 2
\* events in one behaviour: steps (statements, transfers, commits, reads)
\* that fail, and changes of the local file system between runs
MaxEvents == 2

\* None, and SQL's NULL
NULL == <<>>

(***************************************************************************)
(* Strings and paths.                                                      *)
(***************************************************************************)
IsPrefix(a, b) == Len(a) <= Len(b) /\ SubSeq(b, 1, Len(a)) = a

\* the test of the relative path left out
StartsWithDotDotNever(s) == FALSE

\* str.startswith('..')
StartsWithDotDot(s) == IsPrefix(<<".", ".">>, s)

RECURSIVE SplitFrom(_, _, _)
\* the components of s[i..], cur being the component read so far
SplitFrom(s, i, cur) ==
    IF i > Len(s) THEN (IF cur = <<>> THEN <<>> ELSE <<cur>>)
    ELSE IF s[i] = "/"
         THEN (IF cur = <<>> THEN <<>> ELSE <<cur>>) \o SplitFrom(s, i + 1, <<>>)
         ELSE SplitFrom(s, i + 1, Append(cur, s[i]))

\* Path(p).parts without the root "/"
Parts(s) == SplitFrom(s, 1, <<>>)

RECURSIVE JoinFrom(_, _)
JoinFrom(parts, i) ==
    IF i > Len(parts) THEN <<>>
    ELSE IF i = Len(parts) THEN parts[i]
    ELSE parts[i] \o <<"/">> \o JoinFrom(parts, i + 1)

\* "/".join(parts)
Join(parts) == JoinFrom(parts, 1)

\* an absolute path from its components
Abs(parts) == <<"/">> \o Join(parts)

\* Path(p).name
Name(s) == LET ps == Parts(s) IN IF ps = <<>> THEN <<>> ELSE ps[Len(ps)]

\* str.lower() on the letters the model's file names use
LowerChar(c) ==
    CASE c = "J" -> "j" [] c = "P" -> "p" [] c = "G" -> "g" [] c = "E" -> "e"
      [] c = "R" -> "r" [] c = "A" -> "a" [] c = "F" -> "f" [] OTHER -> c

Lower(s) == [i \in 1..Len(s) |-> LowerChar(s[i])]

\* Path(p).suffix: from the last "." of the name, unless the name starts with it
Suffix(s) ==
    LET n == Name(s)
        dots == {i \in 2..Len(n) : n[i] = "."}
    IN  IF dots = {} \/ n[Len(n)] = "." THEN <<>>
        ELSE LET d == CHOOSE i \in dots : \A j \in dots : j <= i
             IN  SubSeq(n, d, Len(n))

\* the extensions of the files to back up, in lower case
LowerExtensions ==
    { <<".", "j", "p", "g">>, <<".", "j", "p", "e", "g">>,
      <<".", "r", "a", "w">>, <<".", "c", "r", "2">>,
      <<".", "n", "e", "f">>, <<".", "a", "r", "w">>,
      <<".", "d", "n", "g">>, <<".", "t", "i", "f">>,
      <<".", "t", "i", "f", "f">>, <<".", "p", "n", "g">>,
      <<".", "r", "a", "f">> }

\* ext.upper() of each of them
UpperExtensions ==
    { <<".", "J", "P", "G">>, <<".", "J", "P", "E", "G">>,
      <<".", "R", "A", "W">>, <<".", "C", "R", "2">>,
      <<".", "N", "E", "F">>, <<".", "A", "R", "W">>,
      <<".", "D", "N", "G">>, <<".", "T", "I", "F">>,
      <<".", "T", "I", "F", "F">>, <<".", "P", "N", "G">>,
      <<".", "R", "A", "F">> }

\* IMAGE_EXTENSIONS, updated with the upper-case forms
IMAGE_EXTENSIONS == LowerExtensions \cup UpperExtensions

\* the directories of generated content, not backed up
EXCLUDE_DIRS ==
    { <<"t", "h", "u", "m", "b", "s">>,
      <<"e", "n", "c", "o", "d", "e", "d", "-", "v", "i", "d", "e", "o">>,
      <<"p", "r", "o", "f", "i", "l", "e", "s">>,
      <<"b", "a", "c", "k", "u", "p", "s">> }

(***************************************************************************)
(* The host: three configured sources, the symbolic links and the files.   *)
(***************************************************************************)
Jpg == <<".", "j", "p", "g">>

InternalRoot == <<"/", "i">>
ExternalRoot == <<"/", "x">>
\* the directory the immich upload path points to
ImmichTarget == <<"/", "u">>
\* IMMICH_UPLOAD_PATH, a symbolic link to ImmichTarget
ImmichLink == <<"/", "l">>

\* the symbolic links of the host: link -> target
Symlinks == {[link |-> ImmichLink, target |-> ImmichTarget]}

\* a directory under the internal root, given as a source root as well
SubRoot == InternalRoot \o <<"/", "s">>

\* the configuration of the run (lines 343-345): "separate" roots, or the
\* immich upload path "nested" in the internal one
VARIABLE conf

\* INTERNAL_IMAGES_PATH, EXTERNAL_IMAGES_PATH and IMMICH_UPLOAD_PATH naming
\* three directories none of which holds another
SeparateSources ==
    << [source_type |-> "internal", source_path |-> InternalRoot],
       [source_type |-> "external", source_path |-> ExternalRoot],
       [source_type |-> "immich_upload", source_path |-> ImmichLink] >>

\* IMMICH_UPLOAD_PATH naming a directory under INTERNAL_IMAGES_PATH
NestedSources ==
    << [source_type |-> "internal", source_path |-> InternalRoot],
       [source_type |-> "external", source_path |-> ExternalRoot],
       [source_type |-> "immich_upload", source_path |-> SubRoot] >>

\* main(): the (source_type, source_path) pairs of the six passes, in order
Sources == IF conf = "nested" THEN NestedSources ELSE SeparateSources

NSources == Len(Sources)

FileA == InternalRoot \o <<"/", "a">> \o Jpg
FileB == InternalRoot \o <<"/", "b", ".", "J", "P", "G">>
FileC == ExternalRoot \o <<"/", "c">> \o Jpg
FileD == ImmichTarget \o <<"/", "d">> \o Jpg
\* never candidates: a text file and a generated thumbnail
FileN == InternalRoot \o <<"/", "n", ".", "t", "x", "t">>
FileT == InternalRoot \o <<"/", "t", "h", "u", "m", "b", "s", "/", "t">> \o Jpg

\* real (symlink-free) paths of the regular files that may exist
ImageFiles == {FileA, FileB, FileC, FileD}
OtherFiles == {FileN, FileT}
AllFiles == ImageFiles \cup OtherFiles

\* real directories holding the roots; only the external one is removable
RealRoots == {InternalRoot, ExternalRoot, ImmichTarget}
Removable == {ExternalRoot}

\* Path.resolve(): a leading symbolic link replaced by its target
RECURSIVE Resolve(_)
Resolve(p) ==
    LET hits == {l \in Symlinks :
                    /\ IsPrefix(l.link, p)
                    /\ (Len(p) = Len(l.link) \/ p[Len(l.link) + 1] = "/")}
    IN  IF hits = {} THEN p
        ELSE LET l == CHOOSE l \in hits : TRUE
             IN  Resolve(l.target \o SubSeq(p, Len(l.link) + 1, Len(p)))

RECURSIVE CommonLen(_, _, _)
\* the number of leading components a and b share, from index i
CommonLen(a, b, i) ==
    IF i > Len(a) \/ i > Len(b) \/ a[i] # b[i] THEN i - 1
    ELSE CommonLen(a, b, i + 1)

\* os.path.relpath(path, start) on POSIX
Relpath(path, start) ==
    LET pp == Parts(path)
        sp == Parts(start)
        c  == CommonLen(pp, sp, 1)
        ups == [i \in 1..(Len(sp) - c) |-> <<".", ".">>]
        rel == ups \o SubSeq(pp, c + 1, Len(pp))
    IN  IF rel = <<>> THEN <<".">> ELSE Join(rel)

\* str.replace('\\', '/')
RECURSIVE NormalizeSeps(_)
NormalizeSeps(s) ==
    IF s = <<>> THEN <<>>
    ELSE <<IF Head(s) = "\\" THEN "/" ELSE Head(s)>> \o NormalizeSeps(Tail(s))

\* get_s3_key(filepath, source_type, source_path)
get_s3_key(filepath, source_type, source_path) ==
    LET source_path_resolved == Resolve(source_path)
        filepath_resolved == Resolve(filepath)
        rel == Relpath(filepath_resolved, source_path_resolved)
        relative_path == IF StartsWithDotDot(rel) THEN Name(filepath) ELSE rel
    IN  <<source_type>> \o <<"/">> \o NormalizeSeps(relative_path)


(***************************************************************************)
(* State.                                                                  *)
(***************************************************************************)
VARIABLES
    fs,       \* the regular files on the media (real paths)
    mounted,  \* the root directories that exist right now
    store,    \* the bucket: a set of [key, original_path], one per key
    live,     \* committed rows of s3_backups
    audit,    \* committed rows of s3_backups_deleted, in insertion order
    proc,     \* per running process: the locals of main() and its connection
    hist,     \* history of the current (or last) run of each process
    removed,  \* history: the rows that left the committed live table
    last,     \* history: what the last completed run did
    nruns, nevents,
    keyc,     \* a call of get_s3_key on its own: arguments and result
    pni,      \* a run of process_new_images.py: the locals of its main()
    ias       \* a run of immich_auto_stack.py: the locals of its main()

\* the state of the programs and functions other than main() of backup_to_s3
aux == <<keyc, pni, ias>>

\* the state of main() of backup_to_s3, its host, bucket and ledger
backup == <<conf, fs, mounted, store, live, audit, proc, hist, removed, last,
            nruns, nevents>>

vars == <<conf, fs, mounted, store, live, audit, proc, hist, removed, last,
          nruns, nevents, aux>>

Procs == {1, 2}

UnderDir(f, d) == IsPrefix(d \o <<"/">>, f)

\* os.path.exists / Path.exists: symbolic links are followed
Exists(p) ==
    LET rp == Resolve(p)
    IN  \/ rp \in mounted
        \/ /\ rp \in fs
           /\ \A d \in RealRoots : UnderDir(rp, d) => d \in mounted

\* Path.rglob('*') restricted to regular files: paths keep base_dir as written
Rglob(base_dir) ==
    LET rb == Resolve(base_dir)
    IN  {base_dir \o SubSeq(f, Len(rb) + 1, Len(f)) :
            f \in {g \in fs : UnderDir(g, rb) /\ Exists(g)}}

InParts(d, p) == \E i \in 1..Len(Parts(p)) : Parts(p)[i] = d

\* find_image_files(base_dir), as the set of the paths it yields
find_image_files(base_dir) ==
    IF ~Exists(base_dir) THEN {}
    ELSE {p \in Rglob(base_dir) :
            /\ Lower(Suffix(p)) \in IMAGE_EXTENSIONS
            /\ ~\E d \in EXCLUDE_DIRS : InParts(d, p)}

\* os.path.getsize and the digest of calculate_md5: one content per file
SizeOf(p) == <<"size", Resolve(p)>>
Md5Of(p) == <<"md5", Resolve(p)>>

(***************************************************************************)
(* The ledger: SQL statements on a table (a set of rows) and transactions. *)
(***************************************************************************)
RowsAt(table, path) == {row \in table : row.file_path = path}

\* SELECT ... FROM s3_backups WHERE file_path = %s ; fetchone()
FetchOne(table, path) ==
    IF RowsAt(table, path) = {} THEN NULL
    ELSE CHOOSE row \in RowsAt(table, path) : TRUE

\* file_path LIKE pattern, the pattern being a prefix followed by '%'
LikePrefix(s, prefix) ==
    /\ Len(prefix) <= Len(s)
    /\ \A i \in 1..Len(prefix) : prefix[i] = "_" \/ prefix[i] = s[i]

\* the row of INSERT INTO s3_backups (... status, uploaded_at) VALUES (..., NOW())
UploadedRow(filepath, s3_key, source_type, file_size, md5, now) ==
    [file_path |-> filepath, s3_key |-> s3_key, source_type |-> source_type,
     file_size |-> file_size, md5_checksum |-> md5, status |-> "uploaded",
     uploaded_at |-> <<"at", now>>]

\* the row of INSERT INTO s3_backups (file_path, s3_key, source_type, status)
ErrorRow(filepath, s3_key, source_type) ==
    [file_path |-> filepath, s3_key |-> s3_key, source_type |-> source_type,
     file_size |-> NULL, md5_checksum |-> NULL, status |-> "error",
     uploaded_at |-> NULL]

\* a plain INSERT, without the ON CONFLICT clause and its unique index
UpsertUploadedPlain(table, new) == table \cup {new}

\* the upsert without status = EXCLUDED.status in its SET list
UpsertUploadedKeepsStatus(table, new) ==
    IF RowsAt(table, new.file_path) = {} THEN table \cup {new}
    ELSE {IF row.file_path = new.file_path
          THEN [row EXCEPT !.s3_key = new.s3_key, !.file_size = new.file_size,
                           !.md5_checksum = new.md5_checksum,
                           !.uploaded_at = new.uploaded_at]
          ELSE row : row \in table}

\* INSERT ... ON CONFLICT (file_path) DO UPDATE SET s3_key, file_size,
\* md5_checksum, status, uploaded_at = EXCLUDED.*
UpsertUploaded(table, new) ==
    IF RowsAt(table, new.file_path) = {} THEN table \cup {new}
    ELSE {IF row.file_path = new.file_path
          THEN [row EXCEPT !.s3_key = new.s3_key, !.file_size = new.file_size,
                           !.md5_checksum = new.md5_checksum,
                           !.status = new.status,
                           !.uploaded_at = new.uploaded_at]
          ELSE row : row \in table}

\* INSERT ... ON CONFLICT (file_path) DO UPDATE SET status = 'error'
UpsertError(table, new) ==
    IF RowsAt(table, new.file_path) = {} THEN table \cup {new}
    ELSE {IF row.file_path = new.file_path
          THEN [row EXCEPT !.status = "error"]
          ELSE row : row \in table}

\* the deletion pass without its DELETE statement
DeleteRowKeeps(table, path) == table

\* DELETE FROM s3_backups WHERE file_path = %s
DeleteRow(table, path) == table \ RowsAt(table, path)

\* original_status taken from the wrong column of the fetched record
AuditRowWrongColumn(record, now) ==
    [file_path |-> record.file_path, s3_key |-> record.s3_key,
     s3_full_path |-> <<"s3://bucket/">> \o record.s3_key,
     source_type |-> record.source_type, file_size |-> record.file_size,
     uploaded_at |-> record.uploaded_at, md5_checksum |-> record.md5_checksum,
     original_status |-> record.source_type, deleted_at |-> <<"at", now>>]

\* the row of INSERT INTO s3_backups_deleted, from the fetched record
AuditRow(record, now) ==
    [file_path |-> record.file_path, s3_key |-> record.s3_key,
     s3_full_path |-> <<"s3://bucket/">> \o record.s3_key,
     source_type |-> record.source_type, file_size |-> record.file_size,
     uploaded_at |-> record.uploaded_at, md5_checksum |-> record.md5_checksum,
     original_status |-> record.status, deleted_at |-> <<"at", now>>]

\* one pending statement applied to the live table
ApplyLive(table, st) ==
    CASE st.kind = "upsert_uploaded" -> UpsertUploaded(table, st.row)
      [] st.kind = "upsert_error" -> UpsertError(table, st.row)
      [] st.kind = "delete" -> DeleteRow(table, st.file_path)
      [] OTHER -> table

RECURSIVE ApplyAllLive(_, _)
ApplyAllLive(table, tx) ==
    IF tx = <<>> THEN table
    ELSE ApplyAllLive(ApplyLive(table, Head(tx)), Tail(tx))

RECURSIVE ApplyAllAudit(_, _)
ApplyAllAudit(table, tx) ==
    IF tx = <<>> THEN table
    ELSE ApplyAllAudit(IF Head(tx).kind = "audit"
                       THEN Append(table, Head(tx).row) ELSE table, Tail(tx))

\* what a statement of process r reads: committed rows and its own changes
ViewLive(r) == ApplyAllLive(live, proc[r].tx)

\* another open transaction has written the row of this path: the statement waits
RowLocked(r, path) ==
    \E q \in Procs \ {r} : \E i \in 1..Len(proc[q].tx) :
        /\ proc[q].tx[i].kind # "audit"
        /\ proc[q].tx[i].file_path = path


(***************************************************************************)
(* A process: the locals of main(), scan_and_upload and sync_deletions,    *)
(* and its database connection (the open transaction tx; aborted is        *)
(* PostgreSQL's state after a failed statement, in which every statement   *)
(* fails until the rollback).                                              *)
(***************************************************************************)
IdleProc ==
    [pc |-> "idle", dry_run |-> FALSE, pass |-> 0, now |-> 0,
     files |-> {}, filepath |-> NULL, file_size |-> NULL, md5 |-> NULL,
     db_files |-> {}, db_file |-> NULL, record |-> NULL,
     uploaded_count |-> 0, error_count |-> 0, skipped_count |-> 0,
     deleted_count |-> 0, not_found |-> 0,
     tx |-> <<>>, aborted |-> FALSE, exited |-> FALSE, exit_code |-> 0]

ZeroCount == [f \in ImageFiles |-> 0]

\* what is remembered about a run: the tables and the bucket at its start,
\* the sources whose root did not exist, what its passes did and what failed
NoHist ==
    [on |-> TRUE, live0 |-> {}, audit0 |-> <<>>, store0 |-> {}, absent |-> {},
     cands |-> {}, faulted |-> {}, md5_failed |-> {},
     uploads |-> ZeroCount, deletes |-> 0, writes |-> 0,
     upload_failed |-> FALSE, cred_failure |-> FALSE, fatal |-> "none",
     passes |-> 0]

\* a host with all the files, before the first run
InitBackup ==
    /\ conf = "separate"
    /\ fs = AllFiles
    /\ mounted = RealRoots
    /\ store = {}
    /\ live = {}
    /\ audit = <<>>
    /\ proc = [r \in Procs |-> IdleProc]
    /\ hist = [r \in Procs |-> NoHist]
    /\ removed = <<>>
    /\ last = [clean |-> FALSE, uploads |-> ZeroCount, live0 |-> {}]
    /\ nruns = 0
    /\ nevents = 0

\* no call of get_s3_key on its own
NoKey == [pc |-> "none"]

\* no run of process_new_images.py
NoPni == [pc |-> "none"]

\* no run of immich_auto_stack.py
NoIas == [pc |-> "none"]

\* nothing but main() of backup_to_s3 runs
AuxIdle == keyc = NoKey /\ pni = NoPni /\ ias = NoIas

Init == InitBackup /\ AuxIdle

P(r) == proc[r]
H(r) == hist[r]

\* the history is kept where it was switched on at the start
Record(h) == hist' = IF hist[1].on THEN h ELSE hist
RecordLast(l) == last' = IF hist[1].on THEN l ELSE last

\* the source of the pass the process is in: passes 1..3 upload, 4..6 delete
SourceOf(pass) == Sources[((pass - 1) % NSources) + 1]
\* main() running the two passes of a source one after the other
UploadingAlternate(pass) == pass % 2 = 1

Uploading(pass) == pass \in 1..NSources
Deleting(pass) == pass \in (NSources + 1)..(2 * NSources)

\* a step raises: one more of the failures the behaviour may hold
Raise == nevents < MaxEvents /\ nevents' = nevents + 1
NoRaise == UNCHANGED nevents

\* conn.rollback(): the open transaction is dropped
Rollback(p) == [p EXCEPT !.tx = <<>>, !.aborted = FALSE]

\* the rows of the old table whose path the new table no longer holds
Gone(old, new) == {row \in old : RowsAt(new, row.file_path) = {}}

RECURSIVE SeqOf(_)
\* the rows of a set in some order
SeqOf(S) == IF S = {} THEN <<>>
            ELSE LET x == CHOOSE y \in S : TRUE IN <<x>> \o SeqOf(S \ {x})

\* a commit whose audit statement keeps the latest entry only
CommitTxReplaces(r) ==
    LET new == ApplyAllLive(live, P(r).tx)
        added == ApplyAllAudit(<<>>, P(r).tx)
    IN  /\ live' = new
        /\ audit' = IF added = <<>> THEN audit ELSE added
        /\ removed' = removed \o SeqOf(Gone(live, new))

\* conn.commit(): the pending statements reach the committed tables
CommitTx(r) ==
    LET new == ApplyAllLive(live, P(r).tx)
    IN  /\ live' = new
        /\ audit' = ApplyAllAudit(audit, P(r).tx)
        /\ removed' = removed \o SeqOf(Gone(live, new))

NoCommit == UNCHANGED <<live, audit, removed>>



(***************************************************************************)
(* main(): start, the fatal conditions, the order of the six passes.       *)
(***************************************************************************)
AllIdle == \A q \in Procs : proc[q].pc = "idle"

\* sys.exit(code), or the return of main(): the connection closes with the
\* process and the server drops its open transaction
Exited(r, code) ==
    [IdleProc EXCEPT !.exited = TRUE, !.exit_code = code, !.dry_run = P(r).dry_run]

NotClean == [clean |-> FALSE, uploads |-> ZeroCount, live0 |-> {}]

\* what the run of r leaves for the next one to be compared with
LastOf(r, code, h) ==
    IF code = 0 /\ ~P(r).dry_run /\ ~h.upload_failed
    THEN [clean |-> TRUE, uploads |-> h.uploads, live0 |-> h.live0]
    ELSE NotClean

\* lines 321-349: the arguments, the configuration, the bucket check
Begin(r) ==
    /\ P(r).pc = "idle"
    /\ nruns < MaxRuns
    /\ nruns' = nruns + 1
    /\ \E dry \in BOOLEAN, bucket \in BOOLEAN :
        LET h == [NoHist EXCEPT !.live0 = live, !.audit0 = audit, !.store0 = store,
                     !.absent = {i \in 1..NSources : ~Exists(Sources[i].source_path)},
                     !.fatal = IF bucket THEN "none" ELSE "bucket"]
        IN  /\ Record([hist EXCEPT ![r] = h])
            /\ IF bucket
               THEN /\ proc' = [proc EXCEPT ![r] =
                          [IdleProc EXCEPT !.pc = "connect_db", !.dry_run = dry,
                                           !.now = nruns + 1]]
                    /\ UNCHANGED last
               ELSE /\ proc' = [proc EXCEPT ![r] =
                          [IdleProc EXCEPT !.exited = TRUE, !.exit_code = 1,
                                           !.dry_run = dry]]
                    /\ RecordLast(NotClean)
    /\ UNCHANGED <<fs, mounted, store, live, audit, removed, nevents>>
    /\ UNCHANGED <<conf, aux>>

\* one run at a time
Start(r) == AllIdle /\ Begin(r)

\* lines 360-363 with get_db_connection: a failure is fatal
ConnectDb(r) ==
    /\ P(r).pc = "connect_db"
    /\ \/ /\ NoRaise
          /\ proc' = [proc EXCEPT ![r].pc = "connect_s3"]
          /\ UNCHANGED <<hist, last>>
       \/ /\ Raise
          /\ proc' = [proc EXCEPT ![r] = Exited(r, 1)]
          /\ Record([hist EXCEPT ![r].fatal = "ledger"])
          /\ RecordLast(NotClean)
    /\ UNCHANGED <<fs, mounted, store, live, audit, removed, nruns>>
    /\ UNCHANGED <<conf, aux>>

\* line 366 with get_s3_client: NoCredentialsError is logged and raised again
ConnectS3(r) ==
    /\ P(r).pc = "connect_s3"
    /\ \/ /\ NoRaise
          /\ proc' = [proc EXCEPT ![r].pc = "scan_start", ![r].pass = 1]
          /\ UNCHANGED <<hist, last>>
       \/ /\ Raise
          /\ proc' = [proc EXCEPT ![r] = Exited(r, 1)]
          /\ Record([hist EXCEPT ![r].fatal = "credentials",
                                  ![r].cred_failure = TRUE])
          /\ RecordLast(NotClean)
    /\ UNCHANGED <<fs, mounted, store, live, audit, removed, nruns>>
    /\ UNCHANGED <<conf, aux>>

\* lines 368-376: the pass after this one; the locals of the pass are dropped
AdvancePass(p) ==
    LET q == [p EXCEPT !.files = {}, !.db_files = {}, !.filepath = NULL,
                       !.uploaded_count = 0, !.error_count = 0,
                       !.skipped_count = 0, !.deleted_count = 0,
                       !.not_found = 0]
    IN  IF p.pass < 2 * NSources
        THEN [q EXCEPT !.pass = p.pass + 1,
                       !.pc = IF Uploading(p.pass + 1) THEN "scan_start"
                              ELSE "sync_start"]
        ELSE [q EXCEPT !.pc = "finish"]

\* lines 378-386: the run ends, exit status 0
Finish(r) ==
    /\ P(r).pc = "finish"
    /\ proc' = [proc EXCEPT ![r] = Exited(r, 0)]
    /\ RecordLast(LastOf(r, 0, H(r)))
    /\ UNCHANGED <<fs, mounted, store, live, audit, removed, hist,
                   nruns, nevents>>
    /\ UNCHANGED <<conf, aux>>


(***************************************************************************)
(* scan_and_upload(s3_client, bucket, cursor, conn, source_type,           *)
(*                 source_path, dry_run)                                   *)
(***************************************************************************)
\* lines 204-206: the source root does not exist, the pass is skipped
ScanSkips(source_path) == ~Exists(source_path)

\* the skip left out: every candidate is uploaded again
AlreadyUploadedNever(db_record) == FALSE

\* line 218: the candidate is already archived
AlreadyUploaded(db_record) == db_record # NULL /\ db_record.status = "uploaded"

\* the early return left out: a dry run transfers too
SkipsTransferNever(dry_run) == FALSE

\* lines 130-132: a dry run returns before the transfer
SkipsTransfer(dry_run) == dry_run

\* s3_client.upload_fileobj(f, bucket, s3_key, ...): one object per key
PutObject(bucket, s3_key, filepath) ==
    {o \in bucket : o.key # s3_key} \cup {[key |-> s3_key, original_path |-> filepath]}

\* the key of the candidate in the pass (lines 223 and 239)
KeyOf(p) ==
    get_s3_key(p.filepath, SourceOf(p.pass).source_type,
               Resolve(SourceOf(p.pass).source_path))

\* lines 204-212
ScanStart(r) ==
    /\ P(r).pc = "scan_start"
    /\ LET src == SourceOf(P(r).pass)
       IN  IF ScanSkips(src.source_path)
           THEN /\ proc' = [proc EXCEPT ![r] = AdvancePass(P(r))]
                /\ Record([hist EXCEPT ![r].passes = @ + 1])
           ELSE /\ proc' = [proc EXCEPT ![r].pc = "scan_next",
                               ![r].files = find_image_files(src.source_path)]
                /\ Record([hist EXCEPT ![r].passes = @ + 1,
                               ![r].cands = find_image_files(src.source_path),
                               ![r].faulted = {}, ![r].md5_failed = {}])
    /\ UNCHANGED <<fs, mounted, store, live, audit, removed, last,
                   nruns, nevents>>
    /\ UNCHANGED <<conf, aux>>

\* line 214: the next candidate, in the order the file system gives
ScanNext(r) ==
    /\ P(r).pc = "scan_next"
    /\ IF P(r).files = {}
       THEN proc' = [proc EXCEPT ![r].pc = "scan_done"]
       ELSE \E f \in P(r).files :
               proc' = [proc EXCEPT ![r].pc = "lookup", ![r].filepath = f,
                                    ![r].files = @ \ {f}]
    /\ UNCHANGED <<fs, mounted, store, live, audit, removed, hist, last,
                   nruns, nevents>>
    /\ UNCHANGED <<conf, aux>>

\* a step of the candidate raised: the fault is remembered
Faulted(r) == [hist EXCEPT ![r].faulted = @ \cup {P(r).filepath},
                           ![r].upload_failed = TRUE]

\* a failed lookup that leaves the transaction usable: the statements of the
\* handler go through
LookupNoAbort(r) ==
    /\ P(r).pc = "lookup"
    /\ \/ /\ NoRaise
          /\ UNCHANGED hist
          /\ LET db_record == FetchOne(ViewLive(r), P(r).filepath)
             IN  IF AlreadyUploaded(db_record)
                 THEN proc' = [proc EXCEPT ![r].pc = "scan_next",
                                  ![r].filepath = NULL,
                                  ![r].skipped_count = @ + 1]
                 ELSE proc' = [proc EXCEPT ![r].pc = "upload"]
       \/ /\ Raise
          /\ Record(Faulted(r))
          /\ proc' = [proc EXCEPT ![r].pc = "except"]
    /\ UNCHANGED <<fs, mounted, store, live, audit, removed, last, nruns>>
    /\ UNCHANGED <<conf, aux>>

\* lines 217-220: file_in_database and the skip
Lookup(r) ==
    /\ P(r).pc = "lookup"
    /\ IF P(r).aborted
       THEN /\ proc' = [proc EXCEPT ![r].pc = "except"]
            /\ Record([hist EXCEPT ![r].upload_failed = TRUE])
            /\ NoRaise
       ELSE \/ /\ NoRaise
               /\ UNCHANGED hist
               /\ LET db_record == FetchOne(ViewLive(r), P(r).filepath)
                  IN  IF AlreadyUploaded(db_record)
                      THEN proc' = [proc EXCEPT ![r].pc = "scan_next",
                                       ![r].filepath = NULL,
                                       ![r].skipped_count = @ + 1]
                      ELSE proc' = [proc EXCEPT ![r].pc = "upload"]
            \/ /\ Raise
               /\ Record(Faulted(r))
               /\ proc' = [proc EXCEPT ![r].pc = "except", ![r].aborted = TRUE]
    /\ UNCHANGED <<fs, mounted, store, live, audit, removed, last, nruns>>
    /\ UNCHANGED <<conf, aux>>

\* the handler returning the digest of what was read before the failure
calculate_md5_partial(filepath, readable) == Md5Of(filepath)

\* lines 72-82: the digest of the file, None when reading it raises
calculate_md5(filepath, readable) ==
    IF readable THEN Md5Of(filepath) ELSE NULL

\* the results of upload_file_to_s3 (lines 116-156)
UploadOutcomes == {"ok", "getsize", "transfer", "credentials"}

\* lines 223-226 and 231: get_s3_key, upload_file_to_s3; calculate_md5 returns
\* None when it cannot read the file (lines 80-82)
Upload(r) ==
    /\ P(r).pc = "upload"
    /\ \E outcome \in UploadOutcomes, md5_ok \in BOOLEAN :
        LET cost == (IF outcome = "ok" THEN 0 ELSE 1) + (IF md5_ok THEN 0 ELSE 1)
            md5 == calculate_md5(P(r).filepath, md5_ok)
            h == IF md5_ok THEN hist
                 ELSE [hist EXCEPT ![r].md5_failed = @ \cup {P(r).filepath}]
        IN  /\ outcome = "getsize" => md5_ok
            /\ P(r).dry_run => outcome \in {"ok", "getsize"}
            /\ nevents + cost <= MaxEvents
            /\ nevents' = nevents + cost
            /\ IF outcome # "ok"
               THEN /\ proc' = [proc EXCEPT ![r].pc = "except"]
                    /\ Record([Faulted(r) EXCEPT ![r].cred_failure =
                                    @ \/ outcome = "credentials"])
                    /\ UNCHANGED store
               ELSE /\ IF SkipsTransfer(P(r).dry_run)
                       THEN /\ UNCHANGED store
                            /\ Record(h)
                       ELSE /\ store' = PutObject(store, KeyOf(P(r)), P(r).filepath)
                            /\ Record([h EXCEPT
                                   ![r].uploads[Resolve(P(r).filepath)] = @ + 1])
                    /\ IF P(r).dry_run
                       THEN proc' = [proc EXCEPT ![r].pc = "scan_next",
                                        ![r].filepath = NULL,
                                        ![r].uploaded_count = @ + 1]
                       ELSE proc' = [proc EXCEPT ![r].pc = "insert",
                                        ![r].file_size = SizeOf(P(r).filepath),
                                        ![r].md5 = md5]
    /\ UNCHANGED <<fs, mounted, live, audit, removed, last, nruns>>
    /\ UNCHANGED <<conf, aux>>

\* lines 162-172: the statement of insert_into_database
insert_into_database(p) ==
    [kind |-> "upsert_uploaded", file_path |-> p.filepath,
     row |-> UploadedRow(p.filepath, KeyOf(p), SourceOf(p.pass).source_type,
                         p.file_size, p.md5, p.now)]

\* lines 161-172 and 174-177: cursor.execute; on an exception rollback and raise
Insert(r) ==
    /\ P(r).pc = "insert"
    /\ ~RowLocked(r, P(r).filepath)
    /\ \/ /\ NoRaise
          /\ proc' = [proc EXCEPT ![r].pc = "insert_commit",
                         ![r].tx = Append(@, insert_into_database(P(r)))]
          /\ Record([hist EXCEPT ![r].writes = @ + 1])
       \/ /\ Raise
          /\ proc' = [proc EXCEPT ![r] = Rollback([P(r) EXCEPT !.pc = "except"])]
          /\ Record(Faulted(r))
    /\ UNCHANGED <<fs, mounted, store, live, audit, removed, last, nruns>>
    /\ UNCHANGED <<conf, aux>>

\* lines 173-177 and 231: conn.commit; on an exception rollback and raise
InsertCommit(r) ==
    /\ P(r).pc = "insert_commit"
    /\ \/ /\ NoRaise
          /\ CommitTx(r)
          /\ proc' = [proc EXCEPT ![r].pc = "scan_next", ![r].tx = <<>>,
                         ![r].filepath = NULL, ![r].file_size = NULL,
                         ![r].md5 = NULL, ![r].uploaded_count = @ + 1]
          /\ UNCHANGED hist
       \/ /\ Raise
          /\ NoCommit
          /\ proc' = [proc EXCEPT ![r] = Rollback([P(r) EXCEPT !.pc = "except"])]
          /\ Record(Faulted(r))
    /\ UNCHANGED <<fs, mounted, store, last, nruns>>
    /\ UNCHANGED <<conf, aux>>

\* the candidate is done with: the loop goes on
NextCandidate(p) ==
    [p EXCEPT !.pc = "scan_next", !.filepath = NULL, !.file_size = NULL,
              !.md5 = NULL]

\* the inner handler without its conn.rollback()
SwallowNoRollback(p) == NextCandidate(p)

\* lines 246-247: the failure of the handler's own statements is swallowed
\* after a rollback
Swallow(p) == Rollback(NextCandidate(p))

\* the handler deriving its key against the file system root instead of the
\* resolved source root
error_upsert_other_root(p) ==
    [kind |-> "upsert_error", file_path |-> p.filepath,
     row |-> ErrorRow(p.filepath,
                      get_s3_key(p.filepath, SourceOf(p.pass).source_type, <<"/">>),
                      SourceOf(p.pass).source_type)]

\* lines 239-244: the statement of the handler
error_upsert(p) ==
    [kind |-> "upsert_error", file_path |-> p.filepath,
     row |-> ErrorRow(p.filepath, KeyOf(p), SourceOf(p.pass).source_type)]

\* the handler counting the candidate as uploaded
CountErrorAsUploaded(p) == [p EXCEPT !.uploaded_count = @ + 1]

\* line 235: error_count += 1
CountError(p) == [p EXCEPT !.error_count = @ + 1]

\* lines 233-244: the handler of the loop body
Except(r) ==
    /\ P(r).pc = "except"
    /\ LET p == CountError(P(r))
       IN  IF p.dry_run
           THEN /\ proc' = [proc EXCEPT ![r] = NextCandidate(p)]
                /\ NoRaise
                /\ UNCHANGED hist
           ELSE IF p.aborted
           THEN /\ proc' = [proc EXCEPT ![r] = Swallow(p)]
                /\ NoRaise
                /\ UNCHANGED hist
           ELSE /\ ~RowLocked(r, p.filepath)
                /\ \/ /\ NoRaise
                      /\ proc' = [proc EXCEPT ![r] =
                            [p EXCEPT !.pc = "except_commit",
                                      !.tx = Append(@, error_upsert(p))]]
                      /\ Record([hist EXCEPT ![r].writes = @ + 1])
                   \/ /\ Raise
                      /\ proc' = [proc EXCEPT ![r] = Swallow(p)]
                      /\ UNCHANGED hist
    /\ UNCHANGED <<fs, mounted, store, live, audit, removed, last, nruns>>
    /\ UNCHANGED <<conf, aux>>

\* lines 245-247: conn.commit of the handler
ExceptCommit(r) ==
    /\ P(r).pc = "except_commit"
    /\ \/ /\ NoRaise
          /\ CommitTx(r)
          /\ proc' = [proc EXCEPT ![r] = [NextCandidate(P(r)) EXCEPT !.tx = <<>>]]
       \/ /\ Raise
          /\ NoCommit
          /\ proc' = [proc EXCEPT ![r] = Swallow(P(r))]
    /\ UNCHANGED <<fs, mounted, store, hist, last, nruns>>
    /\ UNCHANGED <<conf, aux>>

\* line 249: the summary of the pass
ScanDone(r) ==
    /\ P(r).pc = "scan_done"
    /\ proc' = [proc EXCEPT ![r] = AdvancePass(P(r))]
    /\ UNCHANGED <<fs, mounted, store, live, audit, removed, hist, last,
                   nruns, nevents>>
    /\ UNCHANGED <<conf, aux>>


(***************************************************************************)
(* sync_deletions(s3_client, bucket, cursor, conn, source_type,            *)
(*                source_path, dry_run)                                    *)
(***************************************************************************)
\* the check of the root left out: the deletion scan always runs
SyncSkipsNever(source_path) == FALSE

\* lines 254-256: the source root is not accessible, the pass is skipped
SyncSkips(source_path) == ~Exists(source_path)

\* lines 264-269: the (file_path, s3_key) of the uploaded rows of the source
\* whose path matches the resolved root followed by '%'
DbFiles(table, source_type, source_path) ==
    {<<row.file_path, row.s3_key>> : row \in
        {x \in table : /\ x.source_type = source_type
                       /\ x.status = "uploaded"
                       /\ LikePrefix(x.file_path, Resolve(source_path))}}

\* s3_client.delete_object(Bucket=bucket, Key=s3_key)
DeleteObject(bucket, s3_key) == {o \in bucket : o.key # s3_key}

\* an exception of main()'s try block: logged, sys.exit(1) (lines 388-390)
Fatal(r) == proc' = [proc EXCEPT ![r] = Exited(r, 1)] /\ RecordLast(NotClean)

\* lines 254-269
SyncStart(r) ==
    /\ P(r).pc = "sync_start"
    /\ LET src == SourceOf(P(r).pass)
       IN  IF SyncSkips(src.source_path)
           THEN /\ proc' = [proc EXCEPT ![r] = AdvancePass(P(r))]
                /\ Record([hist EXCEPT ![r].passes = @ + 1])
                /\ NoRaise
                /\ UNCHANGED last
           ELSE IF P(r).aborted
           THEN /\ Fatal(r)
                /\ Record([hist EXCEPT ![r].passes = @ + 1])
                /\ NoRaise
           ELSE \/ /\ NoRaise
                   /\ proc' = [proc EXCEPT ![r].pc = "sync_next",
                          ![r].db_files = DbFiles(ViewLive(r), src.source_type,
                                                  src.source_path)]
                   /\ Record([hist EXCEPT ![r].passes = @ + 1])
                   /\ UNCHANGED last
                \/ /\ Raise
                   /\ Fatal(r)
                   /\ Record([hist EXCEPT ![r].passes = @ + 1,
                                           ![r].fatal = "ledger"])
    /\ UNCHANGED <<fs, mounted, store, live, audit, removed, nruns>>
    /\ UNCHANGED <<conf, aux>>

\* lines 271-277: the next row of the scan; a row whose file exists is passed
\* over, a dry run only counts
SyncNext(r) ==
    /\ P(r).pc = "sync_next"
    /\ IF P(r).db_files = {}
       THEN proc' = [proc EXCEPT ![r].pc = "sync_done"]
       ELSE \E d \in P(r).db_files :
               IF Exists(d[1])
               THEN proc' = [proc EXCEPT ![r].db_files = @ \ {d}]
               ELSE IF P(r).dry_run
               THEN proc' = [proc EXCEPT ![r].db_files = @ \ {d},
                                ![r].deleted_count = @ + 1]
               ELSE proc' = [proc EXCEPT ![r].db_files = @ \ {d},
                                ![r].db_file = d, ![r].pc = "fetch"]
    /\ UNCHANGED <<fs, mounted, store, live, audit, removed, hist, last,
                   nruns, nevents>>
    /\ UNCHANGED <<conf, aux>>

\* the record is done with: the loop goes on
NextRecord(p) == [p EXCEPT !.pc = "sync_next", !.db_file = NULL, !.record = NULL]

\* the handlers without their conn.rollback()
SyncExceptNoRollback(p) == NextRecord([p EXCEPT !.error_count = @ + 1])

\* lines 309-316: both handlers count the error and roll back
SyncExcept(p) == Rollback(NextRecord([p EXCEPT !.error_count = @ + 1]))

\* the missing record handled as the exceptions are
NotFoundAsError(p) ==
    Rollback(NextRecord([p EXCEPT !.not_found = @ + 1, !.error_count = @ + 1]))

\* lines 306-308: no record: a warning (counted in not_found) and a rollback
NotFound(p) == Rollback(NextRecord([p EXCEPT !.not_found = @ + 1]))

\* lines 281-287 and 306-308: the full record; none is a warning and a rollback
Fetch(r) ==
    /\ P(r).pc = "fetch"
    /\ IF P(r).aborted
       THEN /\ proc' = [proc EXCEPT ![r] = SyncExcept(P(r))]
            /\ NoRaise
       ELSE \/ /\ NoRaise
               /\ LET record == FetchOne(ViewLive(r), P(r).db_file[1])
                  IN  IF record = NULL
                      THEN proc' = [proc EXCEPT ![r] = NotFound(P(r))]
                      ELSE proc' = [proc EXCEPT ![r].pc = "audit_insert",
                                       ![r].record = record]
            \/ /\ Raise
               /\ proc' = [proc EXCEPT ![r] = SyncExcept(P(r))]
    /\ UNCHANGED <<fs, mounted, store, live, audit, removed, hist, last,
                   nruns>>
    /\ UNCHANGED <<conf, aux>>

\* lines 288-296: the audit row joins the open transaction
AuditInsert(r) ==
    /\ P(r).pc = "audit_insert"
    /\ \/ /\ NoRaise
          /\ proc' = [proc EXCEPT ![r].pc = "delete_object",
                ![r].tx = Append(@, [kind |-> "audit",
                                     row |-> AuditRow(P(r).record, P(r).now)])]
          /\ Record([hist EXCEPT ![r].writes = @ + 1])
       \/ /\ Raise
          /\ proc' = [proc EXCEPT ![r] = SyncExcept(P(r))]
          /\ UNCHANGED hist
    /\ UNCHANGED <<fs, mounted, store, live, audit, removed, last, nruns>>
    /\ UNCHANGED <<conf, aux>>

\* line 299: the remote delete, with the key the scan returned
RemoteDelete(r) ==
    /\ P(r).pc = "delete_object"
    /\ \/ /\ NoRaise
          /\ store' = DeleteObject(store, P(r).db_file[2])
          /\ proc' = [proc EXCEPT ![r].pc = "delete_row"]
          /\ Record([hist EXCEPT ![r].deletes = @ + 1])
       \/ /\ Raise
          /\ proc' = [proc EXCEPT ![r] = SyncExcept(P(r))]
          /\ UNCHANGED <<store, hist>>
    /\ UNCHANGED <<fs, mounted, live, audit, removed, last, nruns>>
    /\ UNCHANGED <<conf, aux>>

\* line 302: the live row joins the open transaction as deleted
DeleteLive(r) ==
    /\ P(r).pc = "delete_row"
    /\ ~RowLocked(r, P(r).db_file[1])
    /\ \/ /\ NoRaise
          /\ proc' = [proc EXCEPT ![r].pc = "delete_commit",
                ![r].tx = Append(@, [kind |-> "delete",
                                     file_path |-> P(r).db_file[1]])]
          /\ Record([hist EXCEPT ![r].writes = @ + 1])
       \/ /\ Raise
          /\ proc' = [proc EXCEPT ![r] = SyncExcept(P(r))]
          /\ UNCHANGED hist
    /\ UNCHANGED <<fs, mounted, store, live, audit, removed, last, nruns>>
    /\ UNCHANGED <<conf, aux>>

\* lines 303-305: conn.commit
DeleteCommit(r) ==
    /\ P(r).pc = "delete_commit"
    /\ \/ /\ NoRaise
          /\ CommitTx(r)
          /\ proc' = [proc EXCEPT ![r] =
                [NextRecord(P(r)) EXCEPT !.tx = <<>>, !.deleted_count = @ + 1]]
       \/ /\ Raise
          /\ NoCommit
          /\ proc' = [proc EXCEPT ![r] = SyncExcept(P(r))]
    /\ UNCHANGED <<fs, mounted, store, hist, last, nruns>>
    /\ UNCHANGED <<conf, aux>>

\* line 318: the summary of the pass
SyncDone(r) ==
    /\ P(r).pc = "sync_done"
    /\ proc' = [proc EXCEPT ![r] = AdvancePass(P(r))]
    /\ UNCHANGED <<fs, mounted, store, live, audit, removed, hist, last,
                   nruns, nevents>>
    /\ UNCHANGED <<conf, aux>>

(***************************************************************************)
(* The host between runs: files are removed and created, the removable     *)
(* medium is unmounted and mounted.                                        *)
(***************************************************************************)
EnvStep ==
    /\ AllIdle
    /\ Raise
    /\ RecordLast(NotClean)
    /\ UNCHANGED <<store, live, audit, removed, proc, hist, nruns>>
    /\ UNCHANGED <<conf, aux>>

RemoveFile ==
    /\ EnvStep
    /\ \E f \in ImageFiles : f \in fs /\ Exists(f) /\ fs' = fs \ {f}
    /\ UNCHANGED mounted

CreateFile ==
    /\ EnvStep
    /\ \E f \in ImageFiles \ fs : fs' = fs \cup {f}
    /\ UNCHANGED mounted

Unmount ==
    /\ EnvStep
    /\ \E d \in Removable : d \in mounted /\ mounted' = mounted \ {d}
    /\ UNCHANGED fs

Mount ==
    /\ EnvStep
    /\ \E d \in Removable \ mounted : mounted' = mounted \cup {d}
    /\ UNCHANGED fs

Env == RemoveFile \/ CreateFile \/ Unmount \/ Mount

(***************************************************************************)
(* Specifications.                                                         *)
(***************************************************************************)
Step(r) ==
    \/ ConnectDb(r) \/ ConnectS3(r)
    \/ ScanStart(r) \/ ScanNext(r) \/ Lookup(r) \/ Upload(r)
    \/ Insert(r) \/ InsertCommit(r) \/ Except(r) \/ ExceptCommit(r)
    \/ ScanDone(r)
    \/ SyncStart(r) \/ SyncNext(r) \/ Fetch(r) \/ AuditInsert(r)
    \/ RemoteDelete(r) \/ DeleteLive(r) \/ DeleteCommit(r) \/ SyncDone(r)
    \/ Finish(r)

\* runs one after the other, by one process
Next == Env \/ Start(1) \/ Step(1)

Spec == Init /\ [][Next]_vars

\* a host whose images are FileA, not archived yet, and FileB, which a run
\* archived (at time 0) before it was removed
InitOverlap ==
    LET key == get_s3_key(FileB, Sources[1].source_type, Sources[1].source_path)
    IN  /\ conf = "separate"
        /\ fs = {FileA} \cup OtherFiles
        /\ mounted = RealRoots
        /\ store = {[key |-> key, original_path |-> FileB]}
        /\ live = {UploadedRow(FileB, key, Sources[1].source_type,
                               SizeOf(FileB), Md5Of(FileB), 0)}
        /\ audit = <<>>
        /\ proc = [r \in Procs |-> IdleProc]
        /\ hist = [r \in Procs |-> [NoHist EXCEPT !.on = FALSE]]
        /\ removed = <<>>
        /\ last = NotClean
        /\ nruns = 0
        /\ nevents = 0
        /\ AuxIdle

\* a second process starts while the first one runs
StartOverlap(r) == Begin(r) /\ (r = 1 \/ proc[1].pc # "idle")

\* runs of two processes that overlap, on an unchanging host
NextOverlap == \E r \in Procs : StartOverlap(r) \/ Step(r)

SpecOverlap == InitOverlap /\ [][NextOverlap]_vars


\* the host of InitOverlap, with the runs of one process and their history
InitRemoved ==
    LET key == get_s3_key(FileB, Sources[1].source_type, Sources[1].source_path)
    IN  /\ conf = "separate"
        /\ fs = {FileA} \cup OtherFiles
        /\ mounted = RealRoots
        /\ store = {[key |-> key, original_path |-> FileB]}
        /\ live = {UploadedRow(FileB, key, Sources[1].source_type,
                               SizeOf(FileB), Md5Of(FileB), 0)}
        /\ audit = <<>>
        /\ proc = [r \in Procs |-> IdleProc]
        /\ hist = [r \in Procs |-> NoHist]
        /\ removed = <<>>
        /\ last = NotClean
        /\ nruns = 0
        /\ nevents = 0
        /\ AuxIdle

\* runs one after the other on that host
SpecRemoved == InitRemoved /\ [][Next]_vars

(***************************************************************************)
(* get_s3_key on its own: one call, with arguments drawn from paths inside  *)
(* and outside the roots, through the symbolic link, in directories and     *)
(* with names that begin with dots or hold a backslash.                     *)
(***************************************************************************)
KeyTypes == {Sources[i].source_type : i \in 1..NSources}

\* a directory whose path has the internal root's as a textual prefix
SiblingRoot == InternalRoot \o <<"x">>

KeyRoots == {InternalRoot, ExternalRoot, ImmichLink, ImmichTarget, SubRoot}

KeyPaths ==
    { FileA, FileC, FileD,
      ImmichLink \o <<"/", "d">> \o Jpg,
      SubRoot \o <<"/", "a">> \o Jpg,
      SubRoot \o <<"/", "t", "/", "a">> \o Jpg,
      SiblingRoot \o <<"/", "a">> \o Jpg,
      InternalRoot \o <<"/", ".", ".", "s", "/", "a">> \o Jpg,
      InternalRoot \o <<"/", ".", ".", "a">> \o Jpg,
      InternalRoot \o <<"/", ".", "h", "/", "a">> \o Jpg,
      InternalRoot \o <<"/", "a", "\\", "b">> \o Jpg,
      ExternalRoot \o <<"/", "s", "/", "a", "\\", "b">> \o Jpg }

KeyCalls ==
    {[pc |-> "call", filepath |-> f, source_type |-> t, source_path |-> d,
      key |-> NULL] : f \in KeyPaths, t \in KeyTypes, d \in KeyRoots}

InitKey == InitBackup /\ keyc \in KeyCalls /\ pni = NoPni /\ ias = NoIas

\* lines 85-107: the call returns the key
ReturnKey ==
    /\ keyc.pc = "call"
    /\ keyc' = [keyc EXCEPT !.pc = "return",
                    !.key = get_s3_key(keyc.filepath, keyc.source_type,
                                       keyc.source_path)]
    /\ UNCHANGED <<backup, pni, ias>>

NextKey == ReturnKey

SpecKey == InitKey /\ [][NextKey]_vars

(***************************************************************************)
(* Other hosts of main(): a ledger that holds a row of an earlier           *)
(* configuration, roots that are nested, and a tree with a directory whose  *)
(* name begins with two dots.                                               *)
(***************************************************************************)
\* a file of the directory that INTERNAL_IMAGES_PATH named in an earlier run
SiblingFile == SiblingRoot \o <<"/", "e">> \o Jpg

\* a host whose internal root was SiblingRoot when a run (at time 0) archived
\* SiblingFile; the variable now names InternalRoot, and SiblingRoot is gone
InitSibling ==
    LET key == get_s3_key(SiblingFile, "internal", SiblingRoot)
    IN  /\ conf = "separate"
        /\ fs = {FileA} \cup OtherFiles
        /\ mounted = RealRoots
        /\ store = {[key |-> key, original_path |-> SiblingFile]}
        /\ live = {UploadedRow(SiblingFile, key, "internal",
                               SizeOf(SiblingFile), Md5Of(SiblingFile), 0)}
        /\ audit = <<>>
        /\ proc = [r \in Procs |-> IdleProc]
        /\ hist = [r \in Procs |-> NoHist]
        /\ removed = <<>>
        /\ last = NotClean
        /\ nruns = 0
        /\ nevents = 0
        /\ AuxIdle

\* runs one after the other on that host
SpecSibling == InitSibling /\ [][Next]_vars

\* a file of the directory that is under two configured roots
NestedFile == SubRoot \o <<"/", "a">> \o Jpg

\* a host whose immich upload path is a directory of the internal root, before
\* the first run; the history is off
InitNested ==
    /\ conf = "nested"
    /\ fs = {FileA, NestedFile} \cup OtherFiles
    /\ mounted = RealRoots \cup {SubRoot}
    /\ store = {}
    /\ live = {}
    /\ audit = <<>>
    /\ proc = [r \in Procs |-> IdleProc]
    /\ hist = [r \in Procs |-> [NoHist EXCEPT !.on = FALSE]]
    /\ removed = <<>>
    /\ last = NotClean
    /\ nruns = 0
    /\ nevents = 0
    /\ AuxIdle

\* runs one after the other on that host
SpecNested == InitNested /\ [][Next]_vars

\* a file in a directory of the internal root whose name begins with two dots
DotsFile == InternalRoot \o <<"/", ".", ".", "s", "/", "a">> \o Jpg

\* a host with FileA and DotsFile under the internal root, before the first
\* run; the history is off
InitDots ==
    /\ conf = "separate"
    /\ fs = {FileA, DotsFile} \cup OtherFiles
    /\ mounted = RealRoots
    /\ store = {}
    /\ live = {}
    /\ audit = <<>>
    /\ proc = [r \in Procs |-> IdleProc]
    /\ hist = [r \in Procs |-> [NoHist EXCEPT !.on = FALSE]]
    /\ removed = <<>>
    /\ last = NotClean
    /\ nruns = 0
    /\ nevents = 0
    /\ AuxIdle

\* runs one after the other on that host
SpecDots == InitDots /\ [][Next]_vars

(***************************************************************************)
(* process_new_images.py: main() walks the image files, collects those to   *)
(* process in batches and hands each full batch to process_batch.           *)
(***************************************************************************)
\* files the walk yields in one run
MaxPending == 3
\* the largest --limit
MaxLimit == 2
\* the largest --batch-size
MaxBatch == 2

\* a file of the walk: "existing" is in existing_files or gone (lines 112-116),
\* "bad" is a file process_batch does not insert (no metadata, lines 155-158,
\* or a failed INSERT, lines 208-209), "ok" is a file it inserts
FileKinds == {"existing", "bad", "ok"}

SeqsUpTo(S, n) == UNION {[1..k -> S] : k \in 0..n}

\* the number of elements of a sequence that are x
CountOf(seq, x) == Cardinality({i \in 1..Len(seq) : seq[i] = x})

\* lines 144-212: the number of files of the batch that were inserted
process_batch(filepaths) == CountOf(filepaths, "ok")

\* lines 68-106: the arguments and the locals before the loop
PniRuns ==
    {[pc |-> "loop", limit |-> l, batch_size |-> b, found |-> fl, files |-> fl,
      batch |-> <<>>, batch_count |-> 0, total_processed |-> 0] :
        l \in 0..MaxLimit, b \in 1..MaxBatch,
        fl \in SeqsUpTo(FileKinds, MaxPending)}

InitPni == InitBackup /\ keyc = NoKey /\ ias = NoIas /\ pni \in PniRuns

\* lines 108-131: one iteration of the loop over the walk
PniIterate ==
    /\ pni.pc = "loop"
    /\ pni.files # <<>>
    /\ LET filepath == Head(pni.files)
           rest == [pni EXCEPT !.files = Tail(@)]
           batch == Append(pni.batch, filepath)
           total == pni.total_processed + process_batch(batch)
       IN  IF filepath = "existing"
           THEN pni' = rest
           ELSE IF Len(batch) >= pni.batch_size
           THEN pni' = [rest EXCEPT !.batch = <<>>, !.batch_count = @ + 1,
                            !.total_processed = total,
                            !.pc = IF pni.limit > 0 /\ total >= pni.limit
                                   THEN "final" ELSE "loop"]
           ELSE pni' = [rest EXCEPT !.batch = batch]
    /\ UNCHANGED <<backup, keyc, ias>>

\* line 108: the walk is exhausted
PniExhausted ==
    /\ pni.pc = "loop"
    /\ pni.files = <<>>
    /\ pni' = [pni EXCEPT !.pc = "final"]
    /\ UNCHANGED <<backup, keyc, ias>>

\* lines 133-142: the remaining files, the total
PniFinal ==
    /\ pni.pc = "final"
    /\ IF pni.batch # <<>>
       THEN pni' = [pni EXCEPT !.pc = "done", !.batch = <<>>,
                        !.batch_count = @ + 1,
                        !.total_processed = @ + process_batch(pni.batch)]
       ELSE pni' = [pni EXCEPT !.pc = "done"]
    /\ UNCHANGED <<backup, keyc, ias>>

NextPni == PniIterate \/ PniExhausted \/ PniFinal

SpecPni == InitPni /\ [][NextPni]_vars

(***************************************************************************)
(* immich_auto_stack.py: main() fetches the assets, groups the unstacked    *)
(* ones by (file name without extension, capture time) and stacks each      *)
(* group of more than one under its first asset after a sort.               *)
(***************************************************************************)
\* assets the server returns in one run
MaxAssets == 3

\* the characters of the model's asset names, in code point order
Alphabet ==
    <<".", "1", "2", "A", "E", "F", "G", "J", "P", "R",
      "a", "b", "d", "e", "f", "g", "j", "p", "r">>

Rank(c) == CHOOSE i \in 1..Len(Alphabet) : Alphabet[i] = c

RECURSIVE StrLess(_, _)
\* s < t on Python strings
StrLess(s, t) ==
    IF t = <<>> THEN FALSE
    ELSE IF s = <<>> THEN TRUE
    ELSE IF Head(s) # Head(t) THEN Rank(Head(s)) < Rank(Head(t))
    ELSE StrLess(Tail(s), Tail(t))

\* p < q on Python pairs of strings
PairLess(p, q) ==
    StrLess(p[1], q[1]) \/ (p[1] = q[1] /\ StrLess(p[2], q[2]))

RECURSIVE Ascending(_)
\* the numbers of a set in ascending order
Ascending(S) ==
    IF S = {} THEN <<>>
    ELSE LET x == CHOOSE y \in S : \A z \in S : y <= z
         IN  <<x>> \o Ascending(S \ {x})

\* str.endswith
EndsWith(s, suffix) ==
    Len(suffix) <= Len(s)
        /\ SubSeq(s, Len(s) - Len(suffix) + 1, Len(s)) = suffix

\* filename.rsplit('.', 1)[0] if '.' in filename else filename
BaseName(filename) ==
    LET dots == {i \in 1..Len(filename) : filename[i] = "."}
    IN  IF dots = {} THEN filename
        ELSE SubSeq(filename, 1,
                    (CHOOSE i \in dots : \A j \in dots : j <= i) - 1)

\* lines 117-128: the grouping key, None without a base name or a time
get_stack_key(asset) ==
    IF BaseName(asset.originalFileName) = <<>> \/ asset.localDateTime = <<>>
    THEN NULL
    ELSE <<BaseName(asset.originalFileName), asset.localDateTime>>

\* lines 131-134
is_jpeg(asset) ==
    \/ EndsWith(Lower(asset.originalFileName), <<".", "j", "p", "g">>)
    \/ EndsWith(Lower(asset.originalFileName), <<".", "j", "p", "e", "g">>)

\* the assets of the model's server
Asset(name, time, count) ==
    [originalFileName |-> name, localDateTime |-> time, stackCount |-> count]

Time1 == <<"d", "1">>
Time2 == <<"d", "2">>

AssetKinds ==
    { Asset(<<"a", ".", "j", "p", "g">>, Time1, 0),
      Asset(<<"a", ".", "R", "A", "F">>, Time1, 0),
      Asset(<<"a", ".", "J", "P", "E", "G">>, Time1, 0),
      Asset(<<"a", ".", "r", "a", "f">>, Time2, 0),
      Asset(<<"a", ".", "r", "a", "f">>, Time1, 2),
      Asset(<<"a">>, Time1, 0),
      Asset(<<".", "j", "p", "g">>, Time1, 0),
      Asset(<<"b", ".", "r", "a", "f">>, <<>>, 0) }

\* line 140 and 143-144: the unstacked assets that have a key, by their
\* position in the list
Keyed(assets) ==
    {i \in 1..Len(assets) :
        assets[i].stackCount = 0 /\ get_stack_key(assets[i]) # NULL}

\* line 151: the assets of a key, in the order of the list (the sort is stable)
GroupOf(assets, key) ==
    Ascending({i \in Keyed(assets) : get_stack_key(assets[i]) = key})

RECURSIVE SortedKeys(_)
\* line 147: the keys in ascending order
SortedKeys(K) ==
    IF K = {} THEN <<>>
    ELSE LET k == CHOOSE x \in K : \A y \in K : x = y \/ PairLess(x, y)
         IN  <<k>> \o SortedKeys(K \ {k})

\* lines 137-155: the groups of more than one asset, as <<key, group>>
find_stackable_groups(assets) ==
    LET keys == {get_stack_key(assets[i]) : i \in Keyed(assets)}
        big == {k \in keys : Len(GroupOf(assets, k)) > 1}
        sorted == SortedKeys(big)
    IN  [n \in 1..Len(sorted) |-> <<sorted[n], GroupOf(assets, sorted[n])>>]

\* a sort of the group by file name only
GroupLessByName(assets, i, j) ==
    \/ StrLess(assets[i].originalFileName, assets[j].originalFileName)
    \/ (assets[i].originalFileName = assets[j].originalFileName /\ i < j)

\* line 228: the order of the sort of a group: JPEG first, then by file name;
\* equal keys keep their order
GroupLess(assets, i, j) ==
    LET fi == IF is_jpeg(assets[i]) THEN 0 ELSE 1
        fj == IF is_jpeg(assets[j]) THEN 0 ELSE 1
    IN  \/ fi < fj
        \/ /\ fi = fj
           /\ \/ StrLess(assets[i].originalFileName, assets[j].originalFileName)
              \/ /\ assets[i].originalFileName = assets[j].originalFileName
                 /\ i < j

RECURSIVE SortGroup(_, _)
\* line 228: group.sort(...)
SortGroup(assets, S) ==
    IF S = {} THEN <<>>
    ELSE LET x == CHOOSE y \in S : \A z \in S : y = z \/ GroupLess(assets, y, z)
         IN  <<x>> \o SortGroup(assets, S \ {x})

\* lines 188-206: the arguments, the API key, the assets the server holds
IasRuns ==
    {[pc |-> "start", api_key |-> k, dry_run |-> d, assets |-> a,
      groups |-> <<>>, stacked |-> 0, sent |-> <<>>] :
        k \in BOOLEAN, d \in BOOLEAN, a \in SeqsUpTo(AssetKinds, MaxAssets)}

InitIas == InitBackup /\ keyc = NoKey /\ pni = NoPni /\ ias \in IasRuns

\* lines 198-220: the key, the assets, the groups
IasBegin ==
    /\ ias.pc = "start"
    /\ IF ~ias.api_key \/ ias.assets = <<>>
       THEN ias' = [ias EXCEPT !.pc = "exit"]
       ELSE LET groups == find_stackable_groups(ias.assets)
            IN  ias' = [ias EXCEPT !.groups = groups,
                            !.pc = IF groups = <<>> THEN "done" ELSE "stack"]
    /\ UNCHANGED <<backup, keyc, pni>>

\* lines 158-185: the request of stack_assets, and the legacy request when the
\* first one has no result
Requests(parent, children, post_ok) ==
    <<[api |-> "stacks", parent |-> parent, children |-> children]>>
    \o (IF post_ok THEN <<>>
        ELSE <<[api |-> "assets", parent |-> parent, children |-> children]>>)

\* lines 224-244: one group: the sort, the parent, the children, the request
IasStack ==
    /\ ias.pc = "stack"
    /\ ias.groups # <<>>
    /\ \E post_ok \in BOOLEAN :
        LET members == Head(ias.groups)[2]
            group == SortGroup(ias.assets,
                               {members[n] : n \in 1..Len(members)})
            parent == Head(group)
            children == Tail(group)
        IN  /\ ias.dry_run => post_ok
            /\ ias' = [ias EXCEPT !.groups = Tail(@), !.stacked = @ + 1,
                            !.sent = IF ias.dry_run THEN @
                                     ELSE @ \o Requests(parent, children, post_ok)]
    /\ UNCHANGED <<backup, keyc, pni>>

\* line 246
IasDone ==
    /\ ias.pc = "stack"
    /\ ias.groups = <<>>
    /\ ias' = [ias EXCEPT !.pc = "done"]
    /\ UNCHANGED <<backup, keyc, pni>>

NextIas == IasBegin \/ IasStack \/ IasDone

SpecIas == InitIas /\ [][NextIas]_vars

(***************************************************************************)
(* Properties.                                                             *)
(***************************************************************************)
HasObject(s3_key) == \E o \in store : o.key = s3_key

\* the index of the source of a pass
SourceIndex(pass) == ((pass - 1) % NSources) + 1

InPass(p) == p.pc \notin {"idle", "connect_db", "connect_s3", "finish"}

UnderRoot(path, source_path) ==
    UnderDir(path, source_path) \/ UnderDir(path, Resolve(source_path))

\* C1: for a source whose root does not exist during the run, both passes
\* return at their first step with nothing written, and every 'uploaded' row
\* under that root that the run found is still in the live table, and the
\* object the run found under its key still in the bucket, although its local
\* file is absent.
C1_AbsentRootUntouched ==
    \A r \in Procs : H(r).on =>
        \A i \in H(r).absent :
            /\ (InPass(P(r)) /\ SourceIndex(P(r).pass) = i)
                  => (P(r).pc \in {"scan_start", "sync_start"} /\ P(r).tx = <<>>)
            /\ \A row \in H(r).live0 :
                  (row.status = "uploaded"
                      /\ UnderRoot(row.file_path, Sources[i].source_path))
                  => /\ row \in live
                     /\ \A o \in H(r).store0 : o.key = row.s3_key => o \in store

\* a run has ended with exit status 0 on a host whose external root was absent
\* while the ledger held an 'uploaded' row of a file under it
C1_Witness ==
    \E r \in Procs :
        /\ H(r).on /\ P(r).exited /\ P(r).exit_code = 0 /\ ~P(r).dry_run
        /\ \E i \in H(r).absent : \E row \in H(r).live0 :
              /\ row.status = "uploaded"
              /\ UnderRoot(row.file_path, Sources[i].source_path)
              /\ ~Exists(row.file_path)
              /\ \E o \in H(r).store0 : o.key = row.s3_key

\* the run is connecting, in an upload pass, or about to start the first
\* deletion pass
InUploadPhase(p) ==
    \/ p.pc \in {"connect_db", "connect_s3"}
    \/ Uploading(p.pass)
    \/ (p.pass = NSources + 1 /\ p.pc = "sync_start")

\* the candidates of all sources on the host as it is
Eligible ==
    UNION {find_image_files(Sources[i].source_path) : i \in 1..NSources}

\* C2: when the previous run completed its upload passes without a failure
\* and the tree has not changed since, a run (not a dry run) uploads nothing
\* and leaves the ledger as it found it through its upload passes; over both
\* runs every eligible file was uploaded once, or not at all if it was
\* 'uploaded' before the first.
C2_SecondPassUploadsNothing ==
    \A r \in Procs :
        (H(r).on /\ last.clean /\ P(r).pc # "idle" /\ ~P(r).dry_run) =>
            /\ H(r).uploads = ZeroCount
            /\ InUploadPhase(P(r)) => live = H(r).live0
            /\ \A f \in Eligible :
                  last.uploads[Resolve(f)] + H(r).uploads[Resolve(f)] =
                      IF AlreadyUploaded(FetchOne(last.live0, f)) THEN 0 ELSE 1

\* the second run has gone through its three upload passes after a first run
\* that uploaded FileA
C2_Witness ==
    \E r \in Procs :
        /\ H(r).on /\ last.clean /\ ~P(r).dry_run
        /\ P(r).pass = NSources + 1 /\ P(r).pc = "sync_start"
        /\ last.uploads[FileA] = 1
        /\ \E row \in live : row.file_path = FileA /\ row.status = "uploaded"

\* the rows of a sequence with this path, key and status
Matching(rows, path, key, status, field) ==
    {i \in 1..Len(rows) : /\ rows[i].file_path = path
                          /\ rows[i].s3_key = key
                          /\ rows[i][field] = status}

\* C3: the rows removed from the live table and the audit rows correspond one
\* to one on (path, key, status): for every removed row there are as many audit
\* rows with its path, key and original status as removed rows with them.
C3_AuditCompleteness ==
    \A i \in 1..Len(removed) :
        LET row == removed[i]
        IN  Cardinality(Matching(audit, row.file_path, row.s3_key, row.status,
                                 "original_status"))
            = Cardinality(Matching(removed, row.file_path, row.s3_key,
                                   row.status, "status"))

\* a row has been removed from the live table by a deletion pass
C3_Witness ==
    /\ Len(removed) = 1
    /\ Len(audit) = 1
    /\ RowsAt(live, removed[1].file_path) = {}

DeletionSteps ==
    {"fetch", "audit_insert", "delete_object", "delete_row", "delete_commit"}

\* the row has moved from the live table to the audit table
Moved(row) ==
    /\ live' = live \ {row}
    /\ Len(audit') = Len(audit) + 1
    /\ SubSeq(audit', 1, Len(audit)) = audit
    /\ audit'[Len(audit')].file_path = row.file_path
    /\ audit'[Len(audit')].s3_key = row.s3_key
    /\ audit'[Len(audit')].original_status = row.status

\* C4: a step of the deletion of one record that fails leaves the committed
\* live and audit tables as they were, with the transaction rolled back, and
\* the pass at its next record; and a step of it either leaves both tables
\* as they were or, at the commit, moves the row from the one to the other.
C4_DeletionAllOrNothing ==
    [][\A r \in Procs : P(r).pc \in DeletionSteps =>
          /\ (proc'[r].error_count = P(r).error_count + 1) =>
                /\ live' = live /\ audit' = audit
                /\ proc'[r].tx = <<>>
                /\ proc'[r].pc = "sync_next"
          /\ \/ live' = live /\ audit' = audit
             \/ /\ P(r).pc = "delete_commit"
                /\ \E row \in live : Moved(row)]_vars

\* a deletion attempt has failed after its audit row was inserted and the
\* remote object deleted, and the pass is at its next record
C4_Witness ==
    \E r \in Procs :
        /\ H(r).on /\ P(r).pc = "sync_next" /\ P(r).error_count = 1
        /\ H(r).deletes = 1
        /\ live = H(r).live0 /\ audit = H(r).audit0

\* C5: at the end of an upload pass that is not a dry run, every candidate of
\* the pass has been taken from the walk, and every candidate none of whose
\* own steps raised has a live row whose status is 'uploaded' or 'error'.
C5_PerFileIsolation ==
    \A r \in Procs :
        (H(r).on /\ P(r).pc = "scan_done" /\ ~P(r).dry_run) =>
            /\ P(r).files = {}
            /\ \A f \in H(r).cands \ H(r).faulted :
                  \E row \in live : /\ row.file_path = f
                                    /\ row.status \in {"uploaded", "error"}

\* a pass over two candidates has ended in which the ledger lookup of FileA
\* raised and FileB was uploaded in this pass
C5_Witness ==
    \E r \in Procs :
        /\ H(r).on /\ P(r).pc = "scan_done" /\ ~P(r).dry_run
        /\ H(r).faulted = {FileA}
        /\ FileB \in H(r).cands
        /\ H(r).uploads[FileB] = 1
        /\ RowsAt(live, FileA) = {}

\* C6: during and after a dry run the bucket, the live table and the audit
\* table are as the run found them, and the run has issued no transfer, no
\* remote delete and no INSERT, UPDATE or DELETE.
C6_DryRunWritesNothing ==
    \A r \in Procs :
        (H(r).on /\ P(r).dry_run /\ (P(r).pc # "idle" \/ P(r).exited)) =>
            /\ store = H(r).store0
            /\ live = H(r).live0
            /\ audit = H(r).audit0
            /\ H(r).uploads = ZeroCount
            /\ H(r).deletes = 0
            /\ H(r).writes = 0
            /\ P(r).tx = <<>>

\* a dry run has gone through the upload pass of FileB, which is on the host
\* with an 'error' row and so taken as far as the transfer, and has counted
\* the deletion it would make of a row whose file is gone
C6_Witness ==
    \E r \in Procs :
        /\ H(r).on /\ P(r).dry_run /\ P(r).pc = "sync_next"
        /\ P(r).deleted_count = 1
        /\ Exists(FileB)
        /\ \E row \in live : row.file_path = FileB /\ row.status = "error"

\* no deletion is between its remote delete and the end of its transaction
Quiescent == \A r \in Procs : P(r).pc \notin {"delete_row", "delete_commit"}

\* C7: whenever no deletion is under way, every live row with status
\* 'uploaded' has the object of its s3_key in the bucket.
C7_UploadedImpliesObject ==
    Quiescent => \A row \in live : row.status = "uploaded" => HasObject(row.s3_key)

OnePerPath(table) ==
    \A a, b \in table : a.file_path = b.file_path => a = b

\* C8: the live table, and the live table as every connection sees it with
\* its own pending statements, holds at most one row per file_path.
C8_OneRowPerPath ==
    /\ OnePerPath(live)
    /\ \A r \in Procs : OnePerPath(ViewLive(r))

\* the second process has committed a row for FileA while the first, which
\* started earlier, holds its own upsert of FileA in its open transaction
C8_Witness ==
    /\ \E row \in live : row.file_path = FileA /\ row.uploaded_at = <<"at", 2>>
    /\ proc[1].pc = "insert_commit"
    /\ proc[1].filepath = FileA
    /\ proc[1].now = 1

\* C9: once a credential failure has occurred the process handles nothing
\* further: it is in the handler that was entered, or it has ended, and then
\* with a non-zero exit status.
C9_CredentialFailureFatal ==
    \A r \in Procs : (H(r).on /\ H(r).cred_failure) =>
        /\ P(r).pc \in {"except", "idle"}
        /\ P(r).pc = "idle" => (P(r).exited /\ P(r).exit_code # 0)

\* C10: a run that has ended has a non-zero exit status exactly when a fatal
\* condition occurred; with status 0 it went through the six passes; with the
\* bucket not configured nothing was attempted.
C10_ExitCode ==
    \A r \in Procs : (H(r).on /\ P(r).exited) =>
        /\ (P(r).exit_code # 0) <=> (H(r).fatal # "none" \/ H(r).cred_failure)
        /\ P(r).exit_code = 0 => H(r).passes = 2 * NSources
        /\ H(r).fatal = "bucket" =>
              /\ H(r).passes = 0
              /\ store = H(r).store0 /\ live = H(r).live0 /\ audit = H(r).audit0

\* the key scan_and_upload computes for a candidate of a source
CandidateKey(f, i) ==
    get_s3_key(f, Sources[i].source_type, Resolve(Sources[i].source_path))

\* no step of the upload pass the process is ending has failed
CleanPass(r) ==
    /\ H(r).on /\ P(r).pc = "scan_done" /\ ~P(r).dry_run
    /\ H(r).faulted = {} /\ H(r).md5_failed = {}

\* C11: at the end of an upload pass (not a dry run) in which no step failed,
\* whatever rows earlier runs left (none, 'error' or 'uploaded'), every
\* candidate has a live row with status 'uploaded'; a candidate that was
\* 'uploaded' before was not transferred and its row is as it was, every
\* other candidate was transferred once and its row carries the key, the size
\* and the checksum of this upload.
C11_ResumeCompletes ==
    \A r \in Procs : CleanPass(r) =>
        \A f \in H(r).cands :
            LET before == FetchOne(H(r).live0, f)
                row == FetchOne(live, f)
            IN  /\ row # NULL
                /\ row.status = "uploaded"
                /\ IF AlreadyUploaded(before)
                   THEN row = before /\ H(r).uploads[Resolve(f)] = 0
                   ELSE /\ H(r).uploads[Resolve(f)] = 1
                        /\ row.s3_key = CandidateKey(f, SourceIndex(P(r).pass))
                        /\ row.file_size = SizeOf(f)
                        /\ row.md5_checksum = Md5Of(f)
                        /\ row.uploaded_at = <<"at", P(r).now>>

\* an upload pass without a failure has ended that found FileA with an 'error'
\* row and FileB 'uploaded', both left by an earlier run
C11_Witness ==
    \E r \in Procs :
        /\ CleanPass(r)
        /\ {FileA, FileB} \subseteq H(r).cands
        /\ \E row \in H(r).live0 : row.file_path = FileA /\ row.status = "error"
        /\ \E row \in H(r).live0 : row.file_path = FileB /\ row.status = "uploaded"
        /\ H(r).uploads[FileA] = 1

\* C12: in an upload pass that is not a dry run, when the loop is between two
\* candidates (or past the last), every candidate of the pass whose processing
\* raised has a live row with status 'error' and the key computed for it.
C12_ErrorRecorded ==
    \A r \in Procs :
        (H(r).on /\ ~P(r).dry_run /\ P(r).pc \in {"scan_next", "scan_done"}) =>
            \A f \in H(r).faulted :
                \E row \in live :
                    /\ row.file_path = f
                    /\ row.status = "error"
                    /\ row.s3_key = CandidateKey(f, SourceIndex(P(r).pass))

\* the rows the deletion scan of source i selects among those the run found
\* whose object was not in the bucket when the run started
Orphans(r, i) ==
    {row \in H(r).live0 :
        /\ row.status = "uploaded"
        /\ row.source_type = Sources[i].source_type
        /\ LikePrefix(row.file_path, Resolve(Sources[i].source_path))
        /\ ~\E o \in H(r).store0 : o.key = row.s3_key}

\* C13: a deletion pass that ends without an error has, for every record of
\* its source whose object an earlier rolled-back attempt had already removed
\* and whose file is still absent, removed the live row and added exactly one
\* audit entry with its path, key and status; the key is still absent.
C13_DoubleDelete ==
    \A r \in Procs :
        (H(r).on /\ ~P(r).dry_run /\ P(r).pc = "sync_done"
                 /\ P(r).error_count = 0) =>
            \A row \in Orphans(r, SourceIndex(P(r).pass)) :
                ~Exists(row.file_path) =>
                    /\ RowsAt(live, row.file_path) = {}
                    /\ Cardinality(Matching(audit, row.file_path, row.s3_key,
                                            row.status, "original_status"))
                       = Cardinality(Matching(H(r).audit0, row.file_path,
                                     row.s3_key, row.status, "original_status")) + 1
                    /\ ~HasObject(row.s3_key)

\* the second run ends its deletion pass over the internal source, having
\* found the row of FileB still live and the bucket already empty
C13_Witness ==
    \E r \in Procs :
        /\ H(r).on /\ ~P(r).dry_run /\ P(r).pc = "sync_done"
        /\ P(r).error_count = 0 /\ P(r).deleted_count = 1
        /\ \E row \in Orphans(r, SourceIndex(P(r).pass)) :
              row.file_path = FileB
        /\ H(r).audit0 = <<>>
        /\ Len(audit) = 1

\* the sources of a source_type
SourcesOfType(source_type) ==
    {i \in 1..NSources : Sources[i].source_type = source_type}

\* C14: the key of a path is one string wherever it is computed or used: every
\* row a connection sees, written by the error upsert or by the 'uploaded'
\* upsert of any run, has the key get_s3_key gives for its path, source type
\* and source root, and the key a deletion passes to the bucket is that key.
C14_KeyStable ==
    \A r \in Procs :
        /\ \A row \in ViewLive(r) : \A i \in SourcesOfType(row.source_type) :
              row.s3_key = CandidateKey(row.file_path, i)
        /\ P(r).db_file # NULL =>
              P(r).db_file[2] =
                  CandidateKey(P(r).db_file[1], SourceIndex(P(r).pass))

\* a retry is about to commit its 'uploaded' upsert of FileA over the 'error'
\* row an earlier run's handler wrote, both with the same key
C14_Witness ==
    \E r \in Procs :
        /\ P(r).pc = "insert_commit" /\ P(r).filepath = FileA
        /\ \E row \in live :
              /\ row.file_path = FileA /\ row.status = "error"
              /\ \E new \in ViewLive(r) :
                    /\ new.file_path = FileA /\ new.status = "uploaded"
                    /\ new.s3_key = row.s3_key

\* the file is in the directory tree of the source root, symbolic links
\* resolved
Inside(filepath, source_path) ==
    LET fp == Parts(Resolve(filepath))
        sp == Parts(Resolve(source_path))
    IN  Len(sp) < Len(fp) /\ SubSeq(fp, 1, Len(sp)) = sp

Returned == keyc.pc = "return"

C16_InsideRelative ==
    (Returned /\ Inside(keyc.filepath, keyc.source_path)) =>
        LET fp == Parts(Resolve(keyc.filepath))
            sp == Parts(Resolve(keyc.source_path))
        IN  keyc.key = <<keyc.source_type>> \o <<"/">>
                \o NormalizeSeps(Join(SubSeq(fp, Len(sp) + 1, Len(fp))))

\* C17: in an upload pass that is not a dry run, when the loop is between two
\* candidates, every candidate whose checksum could not be computed and of
\* which no step raised was transferred and has a live row with status
\* 'uploaded', the size of the file and a null checksum.
C17_Md5FailureUploads ==
    \A r \in Procs :
        (H(r).on /\ ~P(r).dry_run /\ P(r).pc \in {"scan_next", "scan_done"}) =>
            \A f \in H(r).md5_failed \ H(r).faulted :
                /\ H(r).uploads[Resolve(f)] = 1
                /\ HasObject(CandidateKey(f, SourceIndex(P(r).pass)))
                /\ \E row \in live :
                      /\ row.file_path = f
                      /\ row.status = "uploaded"
                      /\ row.md5_checksum = NULL
                      /\ row.file_size = SizeOf(f)

\* the checksum of FileA could not be computed, its upload went through and
\* the loop has moved on
C17_Witness ==
    \E r \in Procs :
        /\ H(r).on /\ ~P(r).dry_run /\ P(r).pc = "scan_next"
        /\ H(r).md5_failed = {FileA} /\ H(r).faulted = {}
        /\ \E row \in live : /\ row.file_path = FileA
                             /\ row.status = "uploaded"
                             /\ row.md5_checksum = NULL

\* C18: every step leaves the entries of the audit table in place and
\* unchanged, adding entries at its end only; a step of a deletion that counts
\* an error adds none.
C18_AuditAppendOnly ==
    [][/\ Len(audit') >= Len(audit)
       /\ SubSeq(audit', 1, Len(audit)) = audit
       /\ \A r \in Procs :
             (P(r).pc \in DeletionSteps
                 /\ proc'[r].error_count = P(r).error_count + 1)
             => audit' = audit]_vars

\* the audit table holds the entries of two deletions made by two runs, the
\* earlier one first
C18_Witness ==
    /\ Len(audit) = 2
    /\ audit[1].file_path = FileB /\ audit[1].deleted_at = <<"at", 1>>
    /\ audit[2].file_path = FileA /\ audit[2].deleted_at = <<"at", 2>>

\* C19: a run of process_new_images that has ended has, with a limit above
\* 0, processed no more images than the limit, and with limit 0 has processed
\* every file of the walk that is pending and can be inserted.
C19_LimitRespected ==
    pni.pc = "done" =>
        /\ pni.limit > 0 => pni.total_processed <= pni.limit
        /\ pni.limit = 0 => pni.total_processed = CountOf(pni.found, "ok")

\* the assets of a request
Members(e) == {e.parent} \cup {e.children[n] : n \in 1..Len(e.children)}

\* C20: every request to stack names at least two different assets, none of
\* them stacked already, all with the same (file name without extension,
\* capture time), and its parent is a JPEG whenever one of them is.
C20_StackedGroups ==
    \A n \in 1..Len(ias.sent) :
        LET e == ias.sent[n]
            parent == ias.assets[e.parent]
        IN  /\ Len(e.children) >= 1
            /\ Cardinality(Members(e)) = 1 + Len(e.children)
            /\ get_stack_key(parent) # NULL
            /\ \A i \in Members(e) :
                  /\ ias.assets[i].stackCount = 0
                  /\ get_stack_key(ias.assets[i]) = get_stack_key(parent)
            /\ (\E i \in Members(e) : is_jpeg(ias.assets[i])) => is_jpeg(parent)

\* the server returned a.RAF, a.jpg and a.JPEG of one capture time in this
\* order, and the group was sent with a.JPEG as the parent and the other two
\* as its children
C20_Witness ==
    /\ ias.pc = "done"
    /\ Len(ias.assets) = 3
    /\ ias.assets[1].originalFileName = <<"a", ".", "R", "A", "F">>
    /\ ias.assets[2].originalFileName = <<"a", ".", "j", "p", "g">>
    /\ ias.assets[3].originalFileName = <<"a", ".", "J", "P", "E", "G">>
    /\ Len(ias.sent) = 1
    /\ ias.sent[1].parent = 3
    /\ ias.sent[1].children = <<2, 1>>

\* the record is one the deletion pass process r is in may delete
Confirmed(r, row) ==
    /\ Deleting(P(r).pass)
    /\ row.status = "uploaded"
    /\ row.source_type = SourceOf(P(r).pass).source_type
    /\ UnderRoot(row.file_path, SourceOf(P(r).pass).source_path)
    /\ ~Exists(row.file_path)

\* C21: a step removes a live row, or the object of a key from the bucket,
\* only in a deletion pass and only for a record that has status 'uploaded',
\* the source type of the pass, a path in the directory tree of the root of
\* the pass and no local file.
C21_DeletesOnlyConfirmed ==
    [][/\ \A row \in live :
             RowsAt(live', row.file_path) = {} =>
                 \E r \in Procs : Confirmed(r, row)
       /\ \A o \in store :
             (~\E n \in store' : n.key = o.key) =>
                 \E r \in Procs : \E row \in live :
                     row.s3_key = o.key /\ Confirmed(r, row)]_vars

\* the connection of r has executed the INSERT of an audit entry
AuditWritten(r) == \E i \in 1..Len(P(r).tx) : P(r).tx[i].kind = "audit"

\* C22: in the deletion of a record the audit entry is written after the
\* remote delete: whenever the INSERT of an audit entry has been executed
\* and not yet committed, the process has fetched the record and made the
\* remote delete, and is at the removal of the live row or at its commit.
C22_AuditAfterRemoteDelete ==
    \A r \in Procs : AuditWritten(r) =>
        /\ P(r).record # NULL
        /\ P(r).pc \in {"delete_row", "delete_commit"}

UploadSteps ==
    {"scan_start", "scan_next", "lookup", "upload", "insert", "insert_commit",
     "except", "except_commit", "scan_done"}

\* C23: a step of an upload pass leaves every live row whose status is
\* 'uploaded' as it is (key, size, checksum, status and time), also when the
\* step is the failure of a statement or of the handler, and transfers no
\* file whose row is 'uploaded'.
C23_UploadedUntouched ==
    [][\A r \in Procs :
          (H(r).on /\ Uploading(P(r).pass) /\ P(r).pc \in UploadSteps) =>
              /\ \A row \in live : row.status = "uploaded" => row \in live'
              /\ hist'[r].uploads # H(r).uploads =>
                    ~AlreadyUploaded(FetchOne(live, P(r).filepath))]_vars

\* the ledger lookup of FileA, which an earlier run left 'uploaded', raised in
\* this pass; the handler has run and the loop has moved on
C23_Witness ==
    \E r \in Procs :
        /\ H(r).on /\ ~P(r).dry_run /\ Uploading(P(r).pass)
        /\ P(r).pc = "scan_next" /\ P(r).error_count = 1
        /\ FileA \in H(r).faulted
        /\ \E row \in H(r).live0 :
              row.file_path = FileA /\ row.status = "uploaded" /\ row \in live

\* C24: a deletion pass (not a dry run) that ends without an error has, for
\* every 'uploaded' record of its source that the run found under its root,
\* given as configured or resolved, and whose file does not exist, removed
\* the live row, added one audit entry and left no object under its key.
C24_RemovedFileDeleted ==
    \A r \in Procs :
        (H(r).on /\ ~P(r).dry_run /\ P(r).pc = "sync_done"
                 /\ P(r).error_count = 0) =>
            \A row \in H(r).live0 :
                (/\ row.status = "uploaded"
                 /\ row.source_type = SourceOf(P(r).pass).source_type
                 /\ UnderRoot(row.file_path, SourceOf(P(r).pass).source_path)
                 /\ ~Exists(row.file_path))
                => /\ RowsAt(live, row.file_path) = {}
                   /\ ~HasObject(row.s3_key)
                   /\ Cardinality(Matching(audit, row.file_path, row.s3_key,
                                           row.status, "original_status"))
                      = Cardinality(Matching(H(r).audit0, row.file_path,
                                    row.s3_key, row.status, "original_status")) + 1

\* C25: every live row has the key that the key derivation gives for its own
\* path and its own source type (with the root of that source), which begins
\* with the source type and "/", also when the path is a candidate of two
\* sources.
C25_KeyOfOwnSource ==
    \A row \in live :
        /\ IsPrefix(<<row.source_type, "/">>, row.s3_key)
        /\ \A i \in SourcesOfType(row.source_type) :
              row.s3_key = CandidateKey(row.file_path, i)

\* the fetch of process r, if it does not raise, finds no record
FindsNone(r) ==
    /\ P(r).pc = "fetch" /\ ~P(r).aborted
    /\ FetchOne(ViewLive(r), P(r).db_file[1]) = NULL

\* C26: the step of a deletion pass whose fetch finds no record leaves the
\* bucket and both tables as they are, counts neither a deletion nor an
\* error, and takes the pass, with its connection rolled back, to the next
\* record of the scan.
C26_MissingRecordSkipped ==
    [][\A r \in Procs :
          (FindsNone(r) /\ proc'[r] # P(r) /\ nevents' = nevents) =>
              /\ store' = store /\ live' = live /\ audit' = audit
              /\ proc'[r].deleted_count = P(r).deleted_count
              /\ proc'[r].error_count = P(r).error_count
              /\ proc'[r].pc = "sync_next"
              /\ proc'[r].pass = P(r).pass
              /\ proc'[r].db_files = P(r).db_files
              /\ proc'[r].db_file = NULL
              /\ proc'[r].tx = <<>>
              /\ ~proc'[r].exited]_vars

\* a deletion pass has logged the warning for the row of FileB, which the
\* scan returned and the run of another process has removed since, and is at
\* its next record with nothing counted
C26_Witness ==
    \E r \in Procs :
        /\ P(r).pc = "sync_next" /\ P(r).not_found = 1
        /\ P(r).deleted_count = 0 /\ P(r).error_count = 0
        /\ RowsAt(live, FileB) = {}
        /\ Len(audit) = 1 /\ audit[1].file_path = FileB

SyncSteps == DeletionSteps \cup {"sync_start", "sync_next", "sync_done"}

\* C27: a run is in a step of an upload pass only in its first three passes
\* and in a step of a deletion pass only after them, when the upload passes
\* of the three sources have been started and left; at the start of a
\* deletion pass no candidate is in progress and the connection holds no
\* statement that is not committed, so that the scan reads committed rows.
C27_UploadsBeforeDeletions ==
    \A r \in Procs :
        /\ P(r).pc \in UploadSteps => P(r).pass \in 1..NSources
        /\ P(r).pc \in SyncSteps =>
              /\ P(r).pass \in (NSources + 1)..(2 * NSources)
              /\ H(r).on => H(r).passes >= NSources
              /\ P(r).files = {} /\ P(r).filepath = NULL
        /\ P(r).pc = "sync_start" => (P(r).tx = <<>> /\ ViewLive(r) = live)

\* a run is about to start its first deletion pass, after three upload passes
\* in which it archived FileA
C27_Witness ==
    \E r \in Procs :
        /\ H(r).on /\ ~P(r).dry_run
        /\ P(r).pc = "sync_start" /\ P(r).pass = NSources + 1
        /\ H(r).passes = NSources
        /\ H(r).uploads[FileA] = 1
        /\ \E row \in live : row.file_path = FileA /\ row.status = "uploaded"

\* the candidates the loop of the pass has not finished with
Pending(p) == Cardinality(p.files) + (IF p.filepath = NULL THEN 0 ELSE 1)

\* C28: throughout an upload pass the candidates counted as uploaded, as
\* skipped and as errors, together with those the loop has not finished
\* with, are the candidates of the pass, and outside a dry run the errors
\* counted are the candidates one of whose steps raised; so at the end of the pass the three
\* counters add up to the number of candidates, a candidate whose transfer
\* went through and whose ledger upsert raised being among the errors.
C28_CountersPartition ==
    \A r \in Procs :
        (H(r).on /\ P(r).pc \in {"scan_next", "scan_done"}) =>
            /\ P(r).uploaded_count + P(r).skipped_count + P(r).error_count
                   + Pending(P(r)) = Cardinality(H(r).cands)
            /\ ~P(r).dry_run => P(r).error_count = Cardinality(H(r).faulted)
            /\ P(r).pc = "scan_done" => Pending(P(r)) = 0

\* a pass over FileA and FileB has ended: FileA was transferred and its
\* upsert raised, FileB was archived; one error, one upload
C28_Witness ==
    \E r \in Procs :
        /\ H(r).on /\ ~P(r).dry_run /\ P(r).pc = "scan_done"
        /\ H(r).cands = {FileA, FileB}
        /\ H(r).faulted = {FileA}
        /\ H(r).uploads[FileA] = 1 /\ H(r).uploads[FileB] = 1
        /\ P(r).uploaded_count = 1 /\ P(r).error_count = 1
        /\ P(r).skipped_count = 0

\* C29: whenever no run is in progress, every object in the bucket is the
\* object of the key of a live row whose status is 'uploaded'.
C29_NoOrphanObject ==
    AllIdle =>
        \A o \in store :
            \E row \in live : row.s3_key = o.key /\ row.status = "uploaded"

\* C30: two live rows of different paths have different keys.
C30_KeysDistinct ==
    \A a, b \in live : a.file_path # b.file_path => a.s3_key # b.s3_key

=============================================================================
